---------------------------- MODULE Spec2Model ----------------------------
(***************************************************************************)
(* A model of the Loki datasource (LokiDatasource): query preparation,     *)
(* the batch query path, the streaming (tail) path, the health check and   *)
(* the query editing helpers.                                              *)
(*                                                                         *)
(* Strings are modelled as sequences of tokens: a selector "{...}", a run  *)
(* of non-blank characters, a template variable, or one blank.  JavaScript *)
(* runs every handler to completion, and the reactions (promise callbacks, *)
(* synchronous observers) of an event run before the next network event is *)
(* taken, so each network event and its reactions are one action.          *)
(***************************************************************************)
EXTENDS Integers, Sequences, FiniteSets, TLC

VARIABLES
    op,            \* which public method of the datasource has been called
    maxLines,      \* this.maxLines
    now,           \* the wall clock, in milliseconds
    options,       \* the DataQueryOptions of the query/stream call
    queryTargets,  \* the local queryTargets of query/stream
    requests,      \* query: the promises of `queries`, one per queryTarget
    outOfOrder,    \* ghost: a request settled while an earlier one was pending
    allStreams,    \* query: the local allStreams of the then-callback
    promise,       \* query: the promise returned to the caller
    network,       \* every backend request, registry lookup and socket issued
    lookups,       \* stream: the registry lookup (backendSrv.get) per target
    sockets,       \* stream: the webSocket per target
    latest,        \* stream: combineLatest's latest value per source
    sub,           \* stream: the state of the subscriber of the returned sequence
    delivered,     \* stream: number of socket messages delivered so far
    lastEvent,     \* stream: the last event handled
    lastEmit,      \* stream: what the last event emitted to the subscriber
    testReply,     \* testDatasource: what the transport answered
    testResult,    \* testDatasource: the promise returned to the caller
    modifyIn,      \* modifyQuery: the query object as it was passed in
    modifyArg,     \* modifyQuery: the query object after the call
    modifyAction,  \* modifyQuery: the action passed in
    modifyOut,     \* modifyQuery: the returned query
    prepLog        \* prepareQueryTarget: the direct calls made so far

vars == << op, maxLines, now, options, queryTargets, requests, outOfOrder,
           allStreams, promise, network, lookups, sockets, latest, sub,
           delivered, lastEvent, lastEmit, testReply, testResult, modifyIn,
           modifyArg, modifyAction, modifyOut, prepLog >>

-----------------------------------------------------------------------------
(* Bounds of the model *)

MaxTargets == 2      \* longest options.targets
MaxMessages == 3     \* socket messages delivered in one stream
MaxTicks == 2        \* clock advances
MaxCalls == 2        \* direct calls of prepareQueryTarget
BaseNow == 1500      \* the clock at construction, in ms
SettingsMaxLines == 2  \* a configured jsonData.maxLines

(* Program constants *)

DEFAULT_MAX_LINES == 1000
NS_FACTOR == 1000000
EXPLORE_POLLING_INTERVAL_MS == 500
SECOND_MS == 1000

-----------------------------------------------------------------------------
(* Strings as token sequences *)

SP == [t |-> "sp", v |-> <<>>]
Word(w) == [t |-> "word", v |-> <<w>>]
Var(n) == [t |-> "var", v |-> <<n>>]
Sel(labels) == [t |-> "sel", v |-> labels]
EmptyString == <<>>
Undefined == << [t |-> "undefined", v |-> <<>>] >>

RECURSIVE TrimLeft(_)
TrimLeft(s) ==
    IF s # <<>> /\ Head(s) = SP THEN TrimLeft(Tail(s)) ELSE s

RECURSIVE TrimRight(_)
TrimRight(s) ==
    IF s # <<>> /\ s[Len(s)] = SP THEN TrimRight(SubSeq(s, 1, Len(s) - 1)) ELSE s

Trim(s) == TrimRight(TrimLeft(s))

\* templateSrv.replace: pure substitution of template variables
templateSrv_replace(expr) ==
    [i \in 1..Len(expr) |->
        IF expr[i].t = "var" THEN Word("x") ELSE expr[i]]

\* index of the first selector token of input, 0 when there is none
FirstSelector(input) ==
    LET S == {i \in 1..Len(input) : input[i].t = "sel"}
    IN  IF S = {} THEN 0 ELSE CHOOSE i \in S : \A j \in S : i <= j

\* parseQuery: the label-selector portion and the line-filter regexp
parseQuery(input) ==
    LET k == FirstSelector(input)
    IN  IF k = 0
        THEN [query |-> EmptyString, regexp |-> Trim(input)]
        ELSE [query |-> << input[k] >>,
              regexp |-> Trim(SubSeq(input, 1, k - 1) \o SubSeq(input, k + 1, Len(input)))]

\* formatQuery: selector and regexp back into one expression string
formatQuery(selector, search) == Trim(selector \o << SP >> \o search)

\* addLabelToSelector: the selector with the label constraint added
addLabelToSelector(selector, key, value) ==
    LET old == IF selector = EmptyString THEN <<>> ELSE selector[1].v
        has == \E i \in 1..Len(old) : i % 2 = 1 /\ old[i] = key /\ old[i + 1] = value
    IN  << Sel(IF has THEN old ELSE old \o << key, value >>) >>

-----------------------------------------------------------------------------
(* Time *)

Moment(ms) == [kind |-> "moment", ms |-> ms, text |-> ""]
DateString(s) == [kind |-> "string", ms |-> 0, text |-> s]

isString(date) == date.kind = "string"

\* dateMath.parse of a relative date, against the clock `clock`
dateMath_parse(text, roundUp, clock) ==
    CASE text = "now"    -> Moment(clock)
      [] text = "now-1s" -> Moment(clock - SECOND_MS)
      [] text = "now/s"  -> IF roundUp
                            THEN Moment((clock \div SECOND_MS) * SECOND_MS + SECOND_MS - 1)
                            ELSE Moment((clock \div SECOND_MS) * SECOND_MS)

\* Math.ceil of the rational num/den
Ceil(num, den) == (num + den - 1) \div den

\* date.valueOf(): a moment's value is a whole number of milliseconds
valueOf(date) == date.ms

getTime(date, roundUp, clock) ==
    LET d == IF isString(date) THEN dateMath_parse(date.text, roundUp, clock) ELSE date
    IN  Ceil(valueOf(d) * NS_FACTOR, 1)


-----------------------------------------------------------------------------
(* Query preparation *)

DEFAULT_QUERY_PARAMS ==
    [direction |-> "BACKWARD", limit |-> DEFAULT_MAX_LINES,
     regexp |-> EmptyString, query |-> EmptyString]

\* constructor: parseInt(settingsData.maxLines, 10) || DEFAULT_MAX_LINES
\* (setting = 0 stands for a missing or non-numeric jsonData.maxLines)
constructor_maxLines(setting) ==
    IF setting = 0 THEN DEFAULT_MAX_LINES ELSE setting

\* faulty variant: the bounds are taken from the range also when streaming
Faulty_prepareQueryTarget(target, opts, clock, limit) ==
    [start |-> getTime(opts.range.from, FALSE, clock),
     end |-> getTime(opts.range.to, TRUE, clock), limit |-> limit]
        @@ parseQuery(templateSrv_replace(target.expr)) @@ DEFAULT_QUERY_PARAMS

prepareQueryTarget(target, opts, clock, limit) ==
    LET streaming == opts.streaming
        interpolated == templateSrv_replace(target.expr)
        liveStreamStart == Moment(clock - EXPLORE_POLLING_INTERVAL_MS)
        liveStreamEnd == Moment(clock)
        start == IF streaming THEN getTime(liveStreamStart, FALSE, clock)
                              ELSE getTime(opts.range.from, FALSE, clock)
        end == IF streaming THEN getTime(liveStreamEnd, TRUE, clock)
                            ELSE getTime(opts.range.to, TRUE, clock)
    IN  [start |-> start, end |-> end, limit |-> limit]
            @@ parseQuery(interpolated) @@ DEFAULT_QUERY_PARAMS

prepareStreamQueryTarget(target, opts) ==
    LET interpolated == templateSrv_replace(target.expr)
    IN  parseQuery(interpolated)

\* faulty variant of the filter: the hide flag is not looked at
Faulty_IsEligible(target) == target.expr # EmptyString

\* the filter of query and stream: target.expr && !target.hide
IsEligible(target) == target.expr # EmptyString /\ ~target.hide

\* the positions in options.targets of the targets the filter keeps, in order
EligibleIdx(targets) ==
    SelectSeq([i \in 1..Len(targets) |-> i], LAMBDA i : IsEligible(targets[i]))

\* _request: one backend request (the URL is the api path plus the
\* serialized parameters); `idx` is the position of the target it is for
_request(apiUrl, idx) == [kind |-> "request", url |-> apiUrl, idx |-> idx]

-----------------------------------------------------------------------------
(* Stream merge *)

\* the rows of one stream, each carrying the labels and search term of it
RowsOf(stream) ==
    [j \in 1..Len(stream.entries) |->
        [ts |-> stream.entries[j].ts, line |-> stream.entries[j].line,
         labels |-> stream.labels, search |-> stream.search]]

RECURSIVE Flatten(_)
Flatten(streams) ==
    IF streams = <<>> THEN <<>>
    ELSE RowsOf(Head(streams)) \o Flatten(Tail(streams))

\* insert row into rows, kept sorted by timestamp, newest first
RECURSIVE InsertRow(_, _)
InsertRow(row, rows) ==
    IF rows = <<>> THEN << row >>
    ELSE IF row.ts > Head(rows).ts THEN << row >> \o rows
    ELSE << Head(rows) >> \o InsertRow(row, Tail(rows))

RECURSIVE SortRows(_)
SortRows(rows) ==
    IF rows = <<>> THEN <<>>
    ELSE InsertRow(rows[Len(rows)], SortRows(SubSeq(rows, 1, Len(rows) - 1)))

\* mergeStreamsToLogs: the rows of all streams, time-ordered, capped at limit
mergeStreamsToLogs(streams, limit) ==
    LET sorted == SortRows(Flatten(streams))
    IN  [rows |-> SubSeq(sorted, 1, IF Len(sorted) < limit THEN Len(sorted) ELSE limit)]

RECURSIVE SortedTimes(_)
SortedTimes(S) ==
    IF S = {} THEN <<>>
    ELSE LET m == CHOOSE x \in S : \A y \in S : x <= y
         IN  << m >> \o SortedTimes(S \ {m})

\* makeSeriesForLogs: the number of rows per bucket of intervalMs
makeSeriesForLogs(rows, intervalMs) ==
    LET Bucket(ts) == (ts \div intervalMs) * intervalMs
        times == SortedTimes({Bucket(rows[j].ts) : j \in 1..Len(rows)})
    IN  [k \in 1..Len(times) |->
            [time |-> times[k],
             count |-> Cardinality({j \in 1..Len(rows) : Bucket(rows[j].ts) = times[k]})]]

-----------------------------------------------------------------------------
(* Inputs *)

Selector == Sel(<< "job", "a" >>)

TargetPool ==
    { [expr |-> << Selector, SP, Word("x") >>, hide |-> FALSE, format |-> "time_series"],
      [expr |-> << Word("y") >>,               hide |-> FALSE, format |-> "logs"],
      [expr |-> EmptyString,                   hide |-> FALSE, format |-> "time_series"],
      [expr |-> << Selector, SP, Var("v") >>,  hide |-> TRUE,  format |-> "logs"] }

TargetLists == UNION {[1..n -> TargetPool] : n \in 0..MaxTargets}

DefaultRange == [from |-> DateString("now-1s"), to |-> DateString("now")]

Entry(ts) == [ts |-> ts, line |-> "line"]
LogStream(labels, tss) ==
    [labels |-> labels, entries |-> [j \in 1..Len(tss) |-> Entry(tss[j])],
     search |-> Undefined, req |-> 0]

\* what the backend may answer to a query request
ResponsePool ==
    { [hasData |-> FALSE, hasStreams |-> FALSE, streams |-> <<>>],
      [hasData |-> TRUE,  hasStreams |-> FALSE, streams |-> <<>>],
      [hasData |-> TRUE,  hasStreams |-> TRUE,  streams |-> << LogStream("a", << 1 >>) >>],
      [hasData |-> TRUE,  hasStreams |-> TRUE,
       streams |-> << LogStream("a", << 3, 1 >>), LogStream("b", << 2 >>) >>] }

NoResponse == [hasData |-> FALSE, hasStreams |-> FALSE, streams |-> <<>>]

-----------------------------------------------------------------------------
(* query *)

\* ghost: remember which request returned the streams of a response
FromRequest(resp, i) ==
    [resp EXCEPT !.streams = [j \in 1..Len(resp.streams) |->
                                 [resp.streams[j] EXCEPT !.req = i]]]

\* lines 153-159: tag the streams of result with the search term of query
TagStreams(result, query) ==
    IF result.hasData
    THEN LET streams == IF result.hasStreams THEN result.streams ELSE <<>>
         IN  [j \in 1..Len(streams) |-> [streams[j] EXCEPT !.search = query.regexp]]
    ELSE <<>>

\* faulty variant of the loop: every result is paired with the first query
RECURSIVE Faulty_CollectStreams(_, _, _)
Faulty_CollectStreams(results, qts, i) ==
    IF i > Len(results) THEN <<>>
    ELSE TagStreams(results[i], qts[1]) \o Faulty_CollectStreams(results, qts, i + 1)

\* lines 147-160: the loop over results, from index i on
RECURSIVE CollectStreams(_, _, _)
CollectStreams(results, qts, i) ==
    IF i > Len(results) THEN <<>>
    ELSE TagStreams(results[i], qts[i]) \o CollectStreams(results, qts, i + 1)

\* faulty variant: the format of the first eligible target decides the shape
Faulty_QueryResult(opts, streams, limit) ==
    IF opts.targets[EligibleIdx(opts.targets)[1]].format = "time_series"
    THEN [data |-> makeSeriesForLogs(mergeStreamsToLogs(streams, limit).rows, opts.intervalMs)]
    ELSE [data |-> streams]

\* lines 162-169: the shape of the result
QueryResult(opts, streams, limit) ==
    IF opts.targets[1].format = "time_series"
    THEN [data |-> makeSeriesForLogs(mergeStreamsToLogs(streams, limit).rows, opts.intervalMs)]
    ELSE [data |-> streams]

\* query(options), up to the return of the promise (lines 135-146)
Query(targets, streaming) ==
    LET opts == [options EXCEPT !.targets = targets, !.streaming = streaming]
        el == EligibleIdx(targets)
        qts == [k \in 1..Len(el) |-> prepareQueryTarget(targets[el[k]], opts, now, maxLines)]
    IN  /\ op = "idle"
        /\ op' = "query"
        /\ options' = opts
        /\ queryTargets' = qts
        /\ IF Len(qts) = 0
           THEN /\ promise' = [state |-> "resolved", data |-> <<>>]
                /\ UNCHANGED << requests, network >>
           ELSE /\ requests' = [k \in 1..Len(qts) |-> [state |-> "pending", resp |-> NoResponse]]
                /\ network' = network \cup {_request("/api/prom/query", el[k]) : k \in 1..Len(el)}
                /\ promise' = [state |-> "pending", data |-> Undefined]
        /\ UNCHANGED << maxLines, now, outOfOrder, allStreams, lookups, sockets, latest,
                        sub, delivered, lastEvent, lastEmit, testReply, testResult,
                        modifyIn, modifyArg, modifyAction, modifyOut, prepLog >>

\* faulty variant: waits for all requests to settle and returns the data of
\* those that succeeded
Faulty_PromiseAll(reqs, i) ==
    IF promise.state = "pending" /\ \A k \in 1..Len(reqs) : reqs[k].state # "pending"
    THEN LET results == [k \in 1..Len(reqs) |-> reqs[k].resp]
             streams == CollectStreams(results, queryTargets, 1)
         IN  /\ allStreams' = streams
             /\ promise' = [state |-> "resolved"] @@ QueryResult(options, streams, maxLines)
    ELSE UNCHANGED << promise, allStreams >>

\* Promise.all(queries).then(...): react to request i having settled
PromiseAll(reqs, i) ==
    IF promise.state # "pending"
    THEN /\ UNCHANGED << promise, allStreams >>
    ELSE IF reqs[i].state = "failed"
    THEN /\ promise' = [state |-> "rejected", data |-> Undefined]
         /\ UNCHANGED allStreams
    ELSE IF \A k \in 1..Len(reqs) : reqs[k].state = "ok"
    THEN LET results == [k \in 1..Len(reqs) |-> reqs[k].resp]
             streams == CollectStreams(results, queryTargets, 1)
         IN  /\ allStreams' = streams
             /\ promise' = [state |-> "resolved"] @@ QueryResult(options, streams, maxLines)
    ELSE UNCHANGED << promise, allStreams >>

\* the backend answers request i
RequestOk(i, resp) ==
    /\ op = "query"
    /\ i \in 1..Len(requests)
    /\ requests[i].state = "pending"
    /\ LET reqs == [requests EXCEPT ![i] = [state |-> "ok", resp |-> FromRequest(resp, i)]]
       IN  /\ requests' = reqs
           /\ PromiseAll(reqs, i)
    /\ outOfOrder' = (outOfOrder \/ \E k \in 1..(i - 1) : requests[k].state = "pending")
    /\ UNCHANGED << op, maxLines, now, options, queryTargets, network, lookups, sockets,
                    latest, sub, delivered, lastEvent, lastEmit, testReply, testResult,
                    modifyIn, modifyArg, modifyAction, modifyOut, prepLog >>

\* request i fails (the transport rejects)
RequestFail(i) ==
    /\ op = "query"
    /\ i \in 1..Len(requests)
    /\ requests[i].state = "pending"
    /\ LET reqs == [requests EXCEPT ![i] = [state |-> "failed", resp |-> NoResponse]]
       IN  /\ requests' = reqs
           /\ PromiseAll(reqs, i)
    /\ outOfOrder' = (outOfOrder \/ \E k \in 1..(i - 1) : requests[k].state = "pending")
    /\ UNCHANGED << op, maxLines, now, options, queryTargets, network, lookups, sockets,
                    latest, sub, delivered, lastEvent, lastEmit, testReply, testResult,
                    modifyIn, modifyArg, modifyAction, modifyOut, prepLog >>

-----------------------------------------------------------------------------
(* stream *)

\* combineLatest's marker of a source that has not produced a value yet
NONE == [labels |-> "NONE", entries |-> <<>>]

\* what a socket may deliver: a LokiStreamResult
MessagePool ==
    { [labels |-> "a", entries |-> << Entry(1) >>],
      [labels |-> "b", entries |-> << Entry(2), Entry(3) >>] }

\* _stream, line 75: the registry lookup, issued when _stream is called
_stream(apiUrl, idx) == [kind |-> "lookup", url |-> "api/datasources", idx |-> idx]

\* _stream, lines 76-82: the socket opened once the lookup has resolved
webSocket(apiUrl, idx) == [kind |-> "socket", url |-> apiUrl, idx |-> idx]

\* faulty variant: emits the values there are, without waiting for every source
Faulty_combineLatest(values) ==
    IF \E i \in 1..Len(values) : values[i] # NONE
    THEN << SelectSeq(values, LAMBDA v : v # NONE) >>
    ELSE <<>>

\* combineLatest: one array of the latest values once every source has one
combineLatest(values) ==
    IF \A i \in 1..Len(values) : values[i] # NONE THEN << values >> ELSE <<>>

\* faulty variant: only the first element of every array is passed on
Faulty_mergeMap(emissions) ==
    [k \in 1..Len(emissions) |-> emissions[k][1]]

\* mergeMap(result => result): every array is flattened into its elements
RECURSIVE mergeMap(_)
mergeMap(emissions) ==
    IF emissions = <<>> THEN <<>> ELSE Head(emissions) \o mergeMap(Tail(emissions))

\* map(result => ({ data: [result] }))
mapToResponse(emissions) ==
    [k \in 1..Len(emissions) |-> [data |-> << emissions[k] >>]]

\* the pipe of lines 126-132, applied to the latest values after an event
Pipe(values) == mapToResponse(mergeMap(combineLatest(values)))

\* tearing down the subscription closes every socket that was opened
Teardown(socks) ==
    [i \in 1..Len(socks) |-> IF socks[i] = "open" THEN "closed" ELSE socks[i]]

QueryVarsIdle == UNCHANGED << requests, outOfOrder, allStreams, promise >>

OtherVarsUnchanged ==
    UNCHANGED << maxLines, now, testReply, testResult, modifyIn, modifyArg,
                 modifyAction, modifyOut, prepLog >>

\* stream(options), up to the return of the sequence (lines 116-133)
Stream(targets) ==
    LET opts == [options EXCEPT !.targets = targets]
        el == EligibleIdx(targets)
        qts == [k \in 1..Len(el) |-> prepareStreamQueryTarget(targets[el[k]], opts)]
    IN  /\ op = "idle"
        /\ op' = "stream"
        /\ options' = opts
        /\ queryTargets' = qts
        /\ sub' = "idle"
        /\ lookups' = [k \in 1..Len(qts) |-> "pending"]
        /\ sockets' = [k \in 1..Len(qts) |-> "none"]
        /\ latest' = [k \in 1..Len(qts) |-> NONE]
        /\ network' = network \cup {_stream("/api/prom/tail", el[k]) : k \in 1..Len(el)}
        /\ lastEvent' = [type |-> "stream", idx |-> 0]
        /\ UNCHANGED << delivered, lastEmit >>
        /\ QueryVarsIdle
        /\ OtherVarsUnchanged

\* the caller subscribes to the returned sequence
Subscribe ==
    LET n == Len(queryTargets)
        el == EligibleIdx(options.targets)
        failed == {i \in 1..n : lookups[i] = "failed"}
        first == IF failed = {} THEN n + 1 ELSE CHOOSE i \in failed : \A j \in failed : i <= j
        opened == {i \in 1..n : i < first /\ lookups[i] = "resolved"}
    IN  /\ op = "stream"
        /\ sub = "idle"
        /\ sub' = IF n = 0 THEN "complete" ELSE IF failed = {} THEN "active" ELSE "errored"
        /\ sockets' = [i \in 1..n |->
                          IF i \in opened
                          THEN (IF failed = {} THEN "open" ELSE "closed")
                          ELSE "none"]
        /\ network' = network \cup {webSocket("/api/prom/tail", el[i]) : i \in opened}
        /\ lastEvent' = [type |-> "subscribe", idx |-> 0]
        /\ lastEmit' = <<>>
        /\ UNCHANGED << op, options, queryTargets, lookups, latest, delivered >>
        /\ QueryVarsIdle
        /\ OtherVarsUnchanged

\* faulty variant: the socket is opened when the lookup resolves, whether or
\* not the subscriber is still there
Faulty_LookupResolve(i) ==
    LET el == EligibleIdx(options.targets)
    IN  /\ op = "stream"
        /\ i \in 1..Len(lookups)
        /\ lookups[i] = "pending"
        /\ lookups' = [lookups EXCEPT ![i] = "resolved"]
        /\ IF sub \in {"active", "unsubscribed"}
           THEN /\ sockets' = [sockets EXCEPT ![i] = "open"]
                /\ network' = network \cup {webSocket("/api/prom/tail", el[i])}
           ELSE UNCHANGED << sockets, network >>
        /\ lastEvent' = [type |-> "lookup", idx |-> i]
        /\ lastEmit' = <<>>
        /\ UNCHANGED << op, options, queryTargets, latest, sub, delivered >>
        /\ QueryVarsIdle
        /\ OtherVarsUnchanged

\* the registry answers the lookup of target i
LookupResolve(i) ==
    LET el == EligibleIdx(options.targets)
    IN  /\ op = "stream"
        /\ i \in 1..Len(lookups)
        /\ lookups[i] = "pending"
        /\ lookups' = [lookups EXCEPT ![i] = "resolved"]
        /\ IF sub = "active"
           THEN /\ sockets' = [sockets EXCEPT ![i] = "open"]
                /\ network' = network \cup {webSocket("/api/prom/tail", el[i])}
           ELSE UNCHANGED << sockets, network >>
        /\ lastEvent' = [type |-> "lookup", idx |-> i]
        /\ lastEmit' = <<>>
        /\ UNCHANGED << op, options, queryTargets, latest, sub, delivered >>
        /\ QueryVarsIdle
        /\ OtherVarsUnchanged

\* the registry lookup of target i fails
LookupFail(i) ==
    /\ op = "stream"
    /\ i \in 1..Len(lookups)
    /\ lookups[i] = "pending"
    /\ lookups' = [lookups EXCEPT ![i] = "failed"]
    /\ IF sub = "active"
       THEN /\ sub' = "errored"
            /\ sockets' = Teardown(sockets)
       ELSE UNCHANGED << sub, sockets >>
    /\ lastEvent' = [type |-> "lookupFail", idx |-> i]
    /\ lastEmit' = <<>>
    /\ UNCHANGED << op, options, queryTargets, latest, delivered, network >>
    /\ QueryVarsIdle
    /\ OtherVarsUnchanged

\* socket i delivers message m
SocketMessage(i, m) ==
    /\ op = "stream"
    /\ sub = "active"
    /\ i \in 1..Len(sockets)
    /\ sockets[i] = "open"
    /\ delivered < MaxMessages
    /\ delivered' = delivered + 1
    /\ latest' = [latest EXCEPT ![i] = m]
    /\ lastEmit' = Pipe(latest')
    /\ lastEvent' = [type |-> "message", idx |-> i]
    /\ UNCHANGED << op, options, queryTargets, lookups, sockets, sub, network >>
    /\ QueryVarsIdle
    /\ OtherVarsUnchanged

\* the server closes socket i; the sequence completes with its last source
SocketClose(i) ==
    /\ op = "stream"
    /\ sub = "active"
    /\ i \in 1..Len(sockets)
    /\ sockets[i] = "open"
    /\ sockets' = [sockets EXCEPT ![i] = "closed"]
    /\ sub' = IF \A k \in 1..Len(sockets) : sockets'[k] = "closed" THEN "complete" ELSE sub
    /\ lastEvent' = [type |-> "close", idx |-> i]
    /\ lastEmit' = <<>>
    /\ UNCHANGED << op, options, queryTargets, lookups, latest, delivered, network >>
    /\ QueryVarsIdle
    /\ OtherVarsUnchanged

\* socket i fails; the error ends the sequence and tears the others down
SocketError(i) ==
    /\ op = "stream"
    /\ sub = "active"
    /\ i \in 1..Len(sockets)
    /\ sockets[i] = "open"
    /\ sockets' = Teardown(sockets)
    /\ sub' = "errored"
    /\ lastEvent' = [type |-> "error", idx |-> i]
    /\ lastEmit' = <<>>
    /\ UNCHANGED << op, options, queryTargets, lookups, latest, delivered, network >>
    /\ QueryVarsIdle
    /\ OtherVarsUnchanged

\* the subscriber unsubscribes
Unsubscribe ==
    /\ op = "stream"
    /\ sub = "active"
    /\ sub' = "unsubscribed"
    /\ sockets' = Teardown(sockets)
    /\ lastEvent' = [type |-> "unsubscribe", idx |-> 0]
    /\ lastEmit' = <<>>
    /\ UNCHANGED << op, options, queryTargets, lookups, latest, delivered, network >>
    /\ QueryVarsIdle
    /\ OtherVarsUnchanged

-----------------------------------------------------------------------------
(* testDatasource *)

\* what the label endpoint may answer
LabelResponsePool ==
    { [defined |-> FALSE, hasData |-> FALSE, hasValues |-> FALSE, values |-> <<>>],
      [defined |-> TRUE,  hasData |-> FALSE, hasValues |-> FALSE, values |-> <<>>],
      [defined |-> TRUE,  hasData |-> TRUE,  hasValues |-> FALSE, values |-> <<>>],
      [defined |-> TRUE,  hasData |-> TRUE,  hasValues |-> TRUE,  values |-> <<>>],
      [defined |-> TRUE,  hasData |-> TRUE,  hasValues |-> TRUE,  values |-> << "a", "b" >>] }

\* what the transport may reject with; "" stands for a missing or falsy field,
\* the status is kept as the text the template literal renders it to
ErrorDataPool ==
    { [kind |-> "none",   text |-> "", message |-> ""],
      [kind |-> "string", text |-> "boom", message |-> ""],
      [kind |-> "object", text |-> "[object Object]", message |-> ""],
      [kind |-> "object", text |-> "[object Object]", message |-> "oops"] }

ErrorPool == [statusText : {"", "Internal Error"}, status : {"", "500"}, data : ErrorDataPool]

NoReply ==
    [kind |-> "none",
     res |-> [defined |-> FALSE, hasData |-> FALSE, hasValues |-> FALSE, values |-> <<>>],
     err |-> [statusText |-> "", status |-> "", data |-> [kind |-> "none", text |-> "", message |-> ""]]]

\* lines 214-223: the then-callback; a message is the sequence of its pieces
testDatasource_then(res) ==
    IF res.defined /\ res.hasData /\ res.hasValues /\ Len(res.values) > 0
    THEN [state |-> "resolved", status |-> "success",
          message |-> << "Data source connected and labels found." >>]
    ELSE [state |-> "resolved", status |-> "error",
          message |-> << "Data source connected, but ", "no labels received",
                         ". Verify that Loki and Promtail is configured properly." >>]

\* faulty variant of the catch-callback: the status code is left out
Faulty_testDatasource_catch(err) ==
    [state |-> "resolved", status |-> "error",
     message |-> << "Loki: " >> \o
                 (IF err.statusText # "" THEN << err.statusText >>
                                         ELSE << "Cannot connect to Loki" >>)]

\* lines 224-242: the catch-callback
testDatasource_catch(err) ==
    LET m1 == << "Loki: " >> \o
              (IF err.statusText # "" THEN << err.statusText >> ELSE << "Cannot connect to Loki" >>)
        m2 == m1 \o (IF err.status # "" THEN << ". ", err.status >> ELSE <<>>)
        m3 == m2 \o (IF err.data.kind # "none" /\ err.data.message # ""
                     THEN << ". ", err.data.message >>
                     ELSE IF err.data.kind # "none" THEN << ". ", err.data.text >>
                     ELSE <<>>)
    IN  [state |-> "resolved", status |-> "error", message |-> m3]

AllButTest ==
    UNCHANGED << maxLines, now, options, queryTargets, requests, outOfOrder, allStreams,
                 promise, lookups, sockets, latest, sub, delivered, lastEvent, lastEmit,
                 modifyIn, modifyArg, modifyAction, modifyOut, prepLog >>

\* testDatasource(), up to the return of the promise (line 213)
TestDatasource ==
    /\ op = "idle"
    /\ op' = "test"
    /\ network' = network \cup {_request("/api/prom/label", 0)}
    /\ testResult' = [state |-> "pending"]
    /\ UNCHANGED testReply
    /\ AllButTest

\* the label request succeeds with res
TestResolve(res) ==
    /\ op = "test"
    /\ testResult.state = "pending"
    /\ testReply' = [NoReply EXCEPT !.kind = "resolve", !.res = res]
    /\ testResult' = testDatasource_then(res)
    /\ UNCHANGED << op, network >>
    /\ AllButTest

\* the label request is rejected with err
TestReject(err) ==
    /\ op = "test"
    /\ testResult.state = "pending"
    /\ testReply' = [NoReply EXCEPT !.kind = "reject", !.err = err]
    /\ testResult' = testDatasource_catch(err)
    /\ UNCHANGED << op, network >>
    /\ AllButTest

-----------------------------------------------------------------------------
(* modifyQuery, getHighlighterExpression *)

LokiQuery(expr) == [refId |-> "A", expr |-> expr]

QueryPool ==
    { LokiQuery(EmptyString),
      LokiQuery(<< Selector >>),
      LokiQuery(<< Selector, SP, Word("x") >>),
      LokiQuery(<< Word("y") >>),
      LokiQuery(<< Word("x"), SP, SP, Word("y") >>),
      LokiQuery(<< Word("x"), SP, Selector, SP, Word("y") >>),
      LokiQuery(<< SP, Selector, SP, SP, Word("x"), SP >>),
      LokiQuery(<< Selector, SP, Sel(<< "env", "dev" >>), SP, Word("x") >>) }

ActionPool ==
    { [type |-> "ADD_FILTER", key |-> "env", value |-> "prod"],
      [type |-> "ADD_FILTER", key |-> "job", value |-> "a"],
      [type |-> "REMOVE_FILTER", key |-> "job", value |-> "a"],
      [type |-> "", key |-> "", value |-> ""] }

\* faulty variant: the regexp is not written back into the expression
Faulty_modifyQuery(query, action) ==
    LET parsed == parseQuery(query.expr)
        selector == IF action.type = "ADD_FILTER"
                    THEN addLabelToSelector(parsed.query, action.key, action.value)
                    ELSE parsed.query
    IN  [query EXCEPT !.expr = formatQuery(selector, EmptyString)]

modifyQuery(query, action) ==
    LET parsed == parseQuery(query.expr)
        selector == IF action.type = "ADD_FILTER"
                    THEN addLabelToSelector(parsed.query, action.key, action.value)
                    ELSE parsed.query
        expression == formatQuery(selector, parsed.regexp)
    IN  [query EXCEPT !.expr = expression]

getHighlighterExpression(query) == parseQuery(query.expr).regexp

\* one call of modifyQuery; modifyArg is the argument object after the call:
\* the result is a copy ({ ...query, expr }), the argument is not written
ModifyQuery(query, action) ==
    /\ op = "idle"
    /\ op' = "modify"
    /\ modifyIn' = << query >>
    /\ modifyAction' = << action >>
    /\ modifyOut' = << modifyQuery(query, action) >>
    /\ modifyArg' = << query >>
    /\ UNCHANGED << maxLines, now, options, queryTargets, requests, outOfOrder, allStreams,
                    promise, network, lookups, sockets, latest, sub, delivered, lastEvent,
                    lastEmit, testReply, testResult, prepLog >>

-----------------------------------------------------------------------------
(* prepareQueryTarget, called directly *)

RangePool ==
    { [from |-> Moment(1000), to |-> Moment(1400)],
      [from |-> Moment(1400), to |-> Moment(1000)],
      [from |-> DateString("now-1s"), to |-> DateString("now")],
      [from |-> DateString("now/s"), to |-> DateString("now/s")] }

PrepareTargets ==
    { [expr |-> << Selector, SP, Var("v") >>, hide |-> FALSE, format |-> "logs"] }

PrepareQueryTarget(target, streaming, range) ==
    LET opts == [targets |-> << target >>, streaming |-> streaming, range |-> range,
                 intervalMs |-> options.intervalMs]
    IN  /\ op \in {"idle", "prepare"}
        /\ Len(prepLog) < MaxCalls
        /\ op' = "prepare"
        /\ prepLog' = Append(prepLog,
                         [now |-> now, streaming |-> streaming, range |-> range,
                          params |-> prepareQueryTarget(target, opts, now, maxLines)])
        /\ UNCHANGED << maxLines, now, options, queryTargets, requests, outOfOrder,
                        allStreams, promise, network, lookups, sockets, latest, sub,
                        delivered, lastEvent, lastEmit, testReply, testResult, modifyIn,
                        modifyArg, modifyAction, modifyOut >>

\* the clock advances between two calls (only prepareQueryTarget reads it)
Tick ==
    /\ op = "prepare"
    /\ Len(prepLog) < MaxCalls
    /\ now < BaseNow + MaxTicks
    /\ now' = now + 1
    /\ UNCHANGED << op, maxLines, options, queryTargets, requests, outOfOrder,
                    allStreams, promise, network, lookups, sockets, latest, sub,
                    delivered, lastEvent, lastEmit, testReply, testResult, modifyIn,
                    modifyArg, modifyAction, modifyOut, prepLog >>

-----------------------------------------------------------------------------
(* The datasource after construction *)

StreamVarsIdle ==
    /\ lookups = <<>> /\ sockets = <<>> /\ latest = <<>> /\ sub = "none"
    /\ delivered = 0 /\ lastEvent = [type |-> "none", idx |-> 0] /\ lastEmit = <<>>

OtherVarsIdle ==
    /\ testReply = NoReply /\ testResult = [state |-> "none"]
    /\ modifyIn = <<>> /\ modifyArg = <<>> /\ modifyAction = <<>> /\ modifyOut = <<>>
    /\ prepLog = <<>>

Init ==
    /\ op = "idle"
    /\ maxLines \in {constructor_maxLines(s) : s \in {0, SettingsMaxLines}}
    /\ now = BaseNow
    /\ options = [targets |-> <<>>, streaming |-> FALSE, range |-> DefaultRange, intervalMs |-> 2]
    /\ queryTargets = <<>>
    /\ requests = <<>>
    /\ outOfOrder = FALSE
    /\ allStreams = <<>>
    /\ promise = [state |-> "none", data |-> Undefined]
    /\ network = {}
    /\ StreamVarsIdle
    /\ OtherVarsIdle

Next ==
    \/ \E targets \in TargetLists, streaming \in BOOLEAN : Query(targets, streaming)
    \/ \E i \in 1..MaxTargets, resp \in ResponsePool : RequestOk(i, resp)
    \/ \E i \in 1..MaxTargets : RequestFail(i)
    \/ \E targets \in TargetLists : Stream(targets)
    \/ Subscribe
    \/ \E i \in 1..MaxTargets : LookupResolve(i)
    \/ \E i \in 1..MaxTargets : LookupFail(i)
    \/ \E i \in 1..MaxTargets, m \in MessagePool : SocketMessage(i, m)
    \/ \E i \in 1..MaxTargets : SocketClose(i)
    \/ \E i \in 1..MaxTargets : SocketError(i)
    \/ Unsubscribe
    \/ TestDatasource
    \/ \E res \in LabelResponsePool : TestResolve(res)
    \/ \E err \in ErrorPool : TestReject(err)
    \/ \E query \in QueryPool, action \in ActionPool : ModifyQuery(query, action)
    \/ \E target \in PrepareTargets, streaming \in BOOLEAN, range \in RangePool :
          PrepareQueryTarget(target, streaming, range)
    \/ Tick

Spec == Init /\ [][Next]_vars

-----------------------------------------------------------------------------
(* Properties *)

Excluded(target) == target.expr = EmptyString \/ target.hide

AllExcluded == \A i \in 1..Len(options.targets) : Excluded(options.targets[i])

\* C1: a target whose expr is empty or whose hide flag is set never causes a
\* backend request, a registry lookup or a socket; when every target of the
\* request is excluded, query resolves to an empty data list and stream yields
\* an empty sequence, and no network call of any kind has been made.
C1_ExcludedTargetsNeverReachBackend ==
    op \in {"query", "stream"} =>
        /\ \A c \in network :
              c.idx \in 1..Len(options.targets) /\ ~Excluded(options.targets[c.idx])
        /\ AllExcluded =>
              /\ network = {}
              /\ op = "query" => promise = [state |-> "resolved", data |-> <<>>]
              /\ op = "stream" => sub \in {"idle", "complete"} /\ lastEmit = <<>>

\* C1 witness: a stream over one hidden and one empty target was subscribed
\* to and completed at once
C1_Witness ==
    /\ op = "stream"
    /\ sub = "complete"
    /\ Len(options.targets) = 2
    /\ options.targets[1].hide /\ options.targets[1].expr # EmptyString
    /\ options.targets[2].expr = EmptyString

\* C2: in query, if the request of any one eligible target fails the whole
\* call rejects, and no data of the targets whose requests succeeded is
\* returned, whatever the order in which the requests complete or fail.
C2_AnyFailureRejectsWholeQuery ==
    (op = "query" /\ \E i \in 1..Len(requests) : requests[i].state = "failed") =>
        /\ promise.state = "rejected"
        /\ promise.data = Undefined
        /\ allStreams = <<>>

\* C2 witness: the first request succeeded with streams, the second failed
C2_Witness ==
    /\ op = "query"
    /\ Len(requests) = 2
    /\ requests[1].state = "ok" /\ requests[1].resp.streams # <<>>
    /\ requests[2].state = "failed"
    /\ promise.state = "rejected"

\* the search term of the k-th eligible target of the request
RegexpOfEligible(k) ==
    parseQuery(templateSrv_replace(options.targets[EligibleIdx(options.targets)[k]].expr)).regexp

\* the streams of the combined list that request i returned, as returned
ReturnedBy(i) ==
    LET mine == SelectSeq(allStreams, LAMBDA s : s.req = i)
    IN  [j \in 1..Len(mine) |-> [mine[j] EXCEPT !.search = Undefined]]

\* C3: for every interleaving of the completions, every stream of the
\* combined result is tagged with the regexp of the eligible target whose
\* request returned it, and the combined list holds the streams in request
\* submission order, not completion order.
C3_StreamsTaggedAndOrderedBySubmission ==
    (op = "query" /\ promise.state = "resolved") =>
        /\ \A k \in 1..Len(allStreams) :
              /\ allStreams[k].req \in 1..Len(requests)
              /\ allStreams[k].search = RegexpOfEligible(allStreams[k].req)
        /\ \A k, l \in 1..Len(allStreams) :
              k < l => allStreams[k].req <= allStreams[l].req
        /\ \A i \in 1..Len(requests) :
              ReturnedBy(i) = IF requests[i].resp.hasData /\ requests[i].resp.hasStreams
                              THEN requests[i].resp.streams ELSE <<>>

\* C3 witness: two targets with different search terms both returned streams,
\* the second before the first
C3_Witness ==
    /\ op = "query"
    /\ promise.state = "resolved"
    /\ outOfOrder
    /\ Len(requests) = 2
    /\ RegexpOfEligible(1) # RegexpOfEligible(2)
    /\ \E k, l \in 1..Len(allStreams) : allStreams[k].req = 1 /\ allStreams[l].req = 2

\* C7: in query with at least one eligible target, the shape of the result is
\* decided by the format of the first target of the request's target list
\* alone: time_series gives the series derived from merging the combined
\* streams, anything else the combined stream list itself.
C7_ShapeFollowsFirstTargetFormat ==
    (op = "query" /\ promise.state = "resolved" /\ Len(queryTargets) > 0) =>
        IF options.targets[1].format = "time_series"
        THEN promise.data =
                 makeSeriesForLogs(mergeStreamsToLogs(allStreams, maxLines).rows,
                                   options.intervalMs)
        ELSE promise.data = allStreams

\* C7 witness: the first target is excluded and asks for time_series, the only
\* eligible target asks for logs, and the result is the series
C7_Witness ==
    /\ op = "query"
    /\ promise.state = "resolved"
    /\ Len(options.targets) = 2
    /\ Excluded(options.targets[1])
    /\ options.targets[1].format = "time_series"
    /\ options.targets[2].format = "logs"
    /\ allStreams # <<>>
    /\ promise.data # allStreams

AllDelivered == \A i \in 1..Len(latest) : latest[i] # NONE

SocketIssued(i) ==
    webSocket("/api/prom/tail", EligibleIdx(options.targets)[i]) \in network

\* C5: after the subscriber unsubscribes, every socket that was opened is
\* closed, no socket is opened afterwards and no further emission reaches the
\* subscriber, also when a registry lookup resolves only afterwards.
C5_UnsubscribeClosesEverySocket ==
    /\ [](sub = "unsubscribed" =>
            /\ lastEmit = <<>>
            /\ \A i \in 1..Len(sockets) :
                  /\ sockets[i] # "open"
                  /\ SocketIssued(i) <=> sockets[i] = "closed")
    /\ [][sub = "unsubscribed" =>
            /\ sub' = "unsubscribed"
            /\ network' = network
            /\ lastEmit' = <<>>]_vars

\* C5 witness: one socket was closed by the unsubscription and the lookup of
\* another target resolved after it, without a socket
C5_Witness ==
    /\ sub = "unsubscribed"
    /\ lastEvent.type = "lookup"
    /\ \E i, j \in 1..Len(sockets) :
          /\ sockets[i] = "closed"
          /\ lookups[j] = "resolved" /\ sockets[j] = "none"

\* C10: in stream with two or more eligible targets nothing is emitted until
\* every target's socket has delivered a message: a target whose lookup is
\* pending or whose socket is silent withholds the output of the others.
C10_NoEmissionBeforeAllDelivered ==
    (op = "stream" /\ Len(queryTargets) >= 2) =>
        /\ lastEmit # <<>> => AllDelivered
        /\ (lastEvent.type = "message" /\ ~AllDelivered) => lastEmit = <<>>

\* C10 witness: a socket delivered a message while the lookup of another
\* target was still pending, and nothing was emitted
C10_Witness ==
    /\ op = "stream"
    /\ Len(queryTargets) >= 2
    /\ lastEvent.type = "message"
    /\ lastEmit = <<>>
    /\ \E j \in 1..Len(lookups) : lookups[j] = "pending"

Contains(message, piece) == \E i \in 1..Len(message) : message[i] = piece

FollowedBy(message, a, b) ==
    \E i, j \in 1..Len(message) : i < j /\ message[i] = a /\ message[j] = b

\* C6: testDatasource never rejects; a label response with a non-empty list
\* gives "success", one with an empty or missing list gives "error" with "no
\* labels received", and a transport rejection gives "error" with a message
\* holding the status text followed by the status code when both are present.
C6_TestDatasourceAlwaysResolves ==
    /\ testResult.state \in {"none", "pending", "resolved"}
    /\ testReply.kind # "none" => testResult.state = "resolved"
    /\ testReply.kind = "resolve" =>
          IF testReply.res.defined /\ testReply.res.hasData /\ testReply.res.hasValues
             /\ testReply.res.values # <<>>
          THEN testResult.status = "success"
          ELSE /\ testResult.status = "error"
               /\ Contains(testResult.message, "no labels received")
    /\ testReply.kind = "reject" =>
          /\ testResult.status = "error"
          /\ (testReply.err.statusText # "" /\ testReply.err.status # "") =>
                FollowedBy(testResult.message, testReply.err.statusText, testReply.err.status)

\* C6 witness: the transport rejected with a status text and a status code
C6_Witness ==
    /\ testReply.kind = "reject"
    /\ testReply.err.statusText = "Internal Error"
    /\ testReply.err.status = "500"
    /\ testResult.state = "resolved"

\* the moment a bound of the range stands for at the time of the call
Resolved(date, roundUp, clock) ==
    IF date.kind = "string" THEN dateMath_parse(date.text, roundUp, clock).ms ELSE date.ms

WindowOfNow(call) ==
    /\ call.params.start = (call.now - EXPLORE_POLLING_INTERVAL_MS) * NS_FACTOR
    /\ call.params.end = call.now * NS_FACTOR

BoundsOfRange(call) ==
    /\ call.params.start = Resolved(call.range.from, FALSE, call.now) * NS_FACTOR
    /\ call.params.end = Resolved(call.range.to, TRUE, call.now) * NS_FACTOR

SameWidthDifferentWindows ==
    \A a, b \in 1..Len(prepLog) :
        (prepLog[a].streaming /\ prepLog[b].streaming /\ prepLog[a].now # prepLog[b].now) =>
            /\ prepLog[a].params.start # prepLog[b].params.start
            /\ prepLog[a].params.end # prepLog[b].params.end
            /\ prepLog[a].params.end - prepLog[a].params.start
                   = prepLog[b].params.end - prepLog[b].params.start

\* C8 as stated: a streaming call takes [now - pollingInterval, now] whatever
\* the range, two streaming calls at different times give different windows of
\* one width, a non-streaming call takes the range's from and to, each bound
\* is the ceiling of the value times 10^6, and start <= end in both cases.
C8_BoundsOrderedInBothModes ==
    /\ SameWidthDifferentWindows
    /\ \A c \in 1..Len(prepLog) :
          /\ IF prepLog[c].streaming THEN WindowOfNow(prepLog[c]) ELSE BoundsOfRange(prepLog[c])
          /\ prepLog[c].params.start <= prepLog[c].params.end

\* C8 as amended: as stated, but start <= end is guaranteed only when
\* streaming; when not streaming start <= end exactly when the range's from
\* is not after its to.
C8_BoundsFollowModeAndRange ==
    /\ SameWidthDifferentWindows
    /\ \A c \in 1..Len(prepLog) :
          IF prepLog[c].streaming
          THEN /\ WindowOfNow(prepLog[c])
               /\ prepLog[c].params.start <= prepLog[c].params.end
          ELSE /\ BoundsOfRange(prepLog[c])
               /\ prepLog[c].params.start <= prepLog[c].params.end
                     <=> Resolved(prepLog[c].range.from, FALSE, prepLog[c].now)
                            <= Resolved(prepLog[c].range.to, TRUE, prepLog[c].now)

\* C8 witness: two streaming calls at different times with different ranges,
\* one of them with from after to
C8_Witness ==
    /\ Len(prepLog) = 2
    /\ prepLog[1].streaming /\ prepLog[2].streaming
    /\ prepLog[1].now # prepLog[2].now
    /\ prepLog[1].range # prepLog[2].range
    /\ prepLog[2].range.from.ms > prepLog[2].range.to.ms

=============================================================================
